---- MODULE Spec2Model ----
(***************************************************************************)
(* The "search" tool handler of the Perplexity MCP server (src/index.ts). *)
(*                                                                         *)
(* createServer parses the configuration once and registers one async     *)
(* handler.  Every invocation of the handler owns its locals (request,    *)
(* payload, response, ...) and suspends at `await fetch(...)` and at      *)
(* `await response.json()`; between two awaits its code runs to           *)
(* completion.  The state is the parsed configuration plus, per           *)
(* invocation, the handler's locals and its position.                     *)
(*                                                                         *)
(* JavaScript values are tagged records of one shape, strings are TLA+    *)
(* strings, and the language operations the handler relies on (||,        *)
(* template literals, property access on null/undefined, JSON.stringify   *)
(* with indent 2) are operators computing what the runtime computes.      *)
(***************************************************************************)
EXTENDS Integers, Sequences, FiniteSets, TLC

VARIABLES parsedConfig, calls

vars == <<parsedConfig, calls>>

(***************************************************************************)
(* Bounds of the model.                                                    *)
(***************************************************************************)
NumCalls == 2
MaxCitations == 2

(***************************************************************************)
(* JavaScript values.  t is the type tag; s, n, a carry a string, a       *)
(* number (integers only), a boolean (n = 1 for true) or an array of      *)
(* strings.  A property that is absent reads as undefined.                *)
(***************************************************************************)
JsValue(t, s, n, a) == [t |-> t, s |-> s, n |-> n, a |-> a]

Undefined == JsValue("undefined", "", 0, <<>>)

Null == JsValue("null", "", 0, <<>>)

JStr(s) == JsValue("string", s, 0, <<>>)

JNum(n) == JsValue("number", "", n, <<>>)

JBool(b) == JsValue("boolean", "", IF b THEN 1 ELSE 0, <<>>)

JArr(a) == JsValue("array", "", 0, a)

JObj == JsValue("object", "", 0, <<>>)

Nullish == {"undefined", "null"}

\* ToBoolean, as applied by `if (x)` and by `x || y`.
Truthy(v) ==
  CASE v.t \in Nullish -> FALSE
    [] v.t = "string" -> v.s # ""
    [] v.t = "number" -> v.n # 0
    [] v.t = "boolean" -> v.n = 1
    [] OTHER -> TRUE

Digit(d) == SubSeq("0123456789", d + 1, d + 1)

RECURSIVE NatToString(_)
NatToString(n) == IF n < 10 THEN Digit(n) ELSE NatToString(n \div 10) \o Digit(n % 10)

\* Number.prototype.toString for integers.
IntToString(n) == IF n < 0 THEN "-" \o NatToString(0 - n) ELSE NatToString(n)

RECURSIVE Join(_, _)
Join(a, sep) ==
  IF a = <<>> THEN ""
  ELSE IF Len(a) = 1 THEN a[1]
  ELSE a[1] \o sep \o Join(Tail(a), sep)

\* ToString, as applied by a template literal `${x}`.
JsToString(v) ==
  CASE v.t = "undefined" -> "undefined"
    [] v.t = "null" -> "null"
    [] v.t = "string" -> v.s
    [] v.t = "number" -> IntToString(v.n)
    [] v.t = "boolean" -> IF v.n = 1 THEN "true" ELSE "false"
    [] v.t = "array" -> Join(v.a, ",")
    [] OTHER -> "[object Object]"

\* Thrown values.  isError: the value is an instance of Error.
Failure(isError, name, message) == [isError |-> isError, name |-> name, message |-> message]

NoFailure == Failure(FALSE, "", "")

\* V8's TypeError for a property read on null or undefined.
PropertyTypeError(t, key) ==
  Failure(TRUE, "TypeError", "Cannot read properties of " \o t \o " (reading '" \o key \o "')")

(***************************************************************************)
(* JSON.stringify(value, null, 2).                                         *)
(***************************************************************************)
EscapeChar(c) ==
  CASE c = "\"" -> "\\\""
    [] c = "\\" -> "\\\\"
    [] c = "\n" -> "\\n"
    [] OTHER -> c

RECURSIVE Escape(_)
Escape(s) == IF s = "" THEN "" ELSE EscapeChar(SubSeq(s, 1, 1)) \o Escape(Tail(s))

Quote(s) == "\"" \o Escape(s) \o "\""

RECURSIVE QuoteAll(_)
QuoteAll(a) == IF a = <<>> THEN <<>> ELSE <<Quote(a[1])>> \o QuoteAll(Tail(a))

RECURSIVE Indent(_, _)
Indent(lines, ind) == IF lines = <<>> THEN <<>> ELSE <<ind \o lines[1]>> \o Indent(Tail(lines), ind)

\* A value at indentation ind (never called on undefined: such members are dropped).
StringifyValue(v, ind) ==
  CASE v.t = "null" -> "null"
    [] v.t = "string" -> Quote(v.s)
    [] v.t = "number" -> IntToString(v.n)
    [] v.t = "boolean" -> IF v.n = 1 THEN "true" ELSE "false"
    [] v.t = "array" ->
         IF v.a = <<>> THEN "[]"
         ELSE "[\n" \o Join(Indent(QuoteAll(v.a), ind \o "  "), ",\n") \o "\n" \o ind \o "]"
    [] OTHER -> "{}"

Member(key, v) == IF v.t = "undefined" THEN <<>> ELSE <<Quote(key) \o ": " \o StringifyValue(v, "  ")>>

\* JSON.stringify(formattedResponse, null, 2) of {content, citations}.
JSONStringify(formatted) ==
  LET members == Member("content", formatted.content) \o Member("citations", formatted.citations)
  IN IF members = <<>> THEN "{}"
     ELSE "{\n" \o Join(Indent(members, "  "), ",\n") \o "\n}"

(***************************************************************************)
(* Configuration: configSchema and its defaults.                           *)
(* temperature is carried in tenths (2 is 0.2).                           *)
(***************************************************************************)
DefaultModel == "sonar-pro"

DefaultMaxTokens == 8192

DefaultTemperature == 2

Models == {"sonar", "sonar-pro"}

\* configSchema.parse: the key is required, the other fields default.
ConfigParse(config) ==
  [perplexityApiKey |-> config.perplexityApiKey,
   model |-> IF "model" \in DOMAIN config THEN config.model ELSE DefaultModel,
   maxTokens |-> IF "maxTokens" \in DOMAIN config THEN config.maxTokens ELSE DefaultMaxTokens,
   temperature |-> IF "temperature" \in DOMAIN config THEN config.temperature ELSE DefaultTemperature]

(***************************************************************************)
(* The handler's locals.                                                   *)
(***************************************************************************)
Request(query, filter) == [query |-> query, search_recency_filter |-> filter]

NoRequest == Request("", Undefined)

NoPayload == <<>>

\* A response body: whether response.json() resolves, the SyntaxError it rejects
\* with otherwise, and the parsed value.  Of the parsed value only its type and
\* the four properties the handler reads are kept.
JsonData(t, error, message, choices, citations) ==
  [t |-> t, error |-> error, message |-> message, choices |-> choices, citations |-> citations]

MessageValue(t, content) == [t |-> t, content |-> content]

ChoiceValue(t, message) == [t |-> t, message |-> message]

ChoicesValue(t, s, elems) == [t |-> t, s |-> s, elems |-> elems]

UndefinedMessage == MessageValue("undefined", Undefined)

UndefinedChoice == ChoiceValue("undefined", UndefinedMessage)

UndefinedChoices == ChoicesValue("undefined", "", <<>>)

NullData == JsonData("null", Undefined, Undefined, UndefinedChoices, Undefined)

Body(valid, syntaxError, data) == [valid |-> valid, syntaxError |-> syntaxError, data |-> data]

NoBody == Body(FALSE, "", NullData)

Response(status, body) == [status |-> status, ok |-> status >= 200 /\ status <= 299, body |-> body]

NoResponse == Response(0, NoBody)

NoFormatted == [content |-> Undefined, citations |-> Undefined]

\* How the handler's promise settles: fulfilled with a tool result, or rejected.
Returned(value) == [kind |-> "return", value |-> value, thrown |-> NoFailure]

Thrown(error) == [kind |-> "throw", value |-> <<>>, thrown |-> error]

Pending == [kind |-> "none", value |-> <<>>, thrown |-> NoFailure]

TextContent(text) == <<[type |-> "text", text |-> text]>>

SuccessResult(text) == [content |-> TextContent(text)]

ErrorResult(text) == [content |-> TextContent(text), isError |-> TRUE]

IdleCall ==
  [pc |-> "idle", request |-> NoRequest, payload |-> NoPayload, sent |-> <<>>,
   fetched |-> "none", caught |-> FALSE, failure |-> NoFailure, response |-> NoResponse,
   bodyReads |-> 0, formatted |-> NoFormatted, completion |-> Pending]

(***************************************************************************)
(* The handler, between its suspension points.                             *)
(***************************************************************************)
ErrorPrefix == "Perplexity API error: "

\* BuildPayload forgetting the optional parameter.
BuildPayloadNoFilter(cfg, request) ==
  [model |-> cfg.model,
   messages |-> <<[role |-> "user", content |-> request.query]>>,
   max_tokens |-> cfg.maxTokens,
   temperature |-> cfg.temperature]

\* Lines 49-64: the payload, with search_recency_filter only when it is truthy.
BuildPayload(cfg, request) ==
  LET payload == [model |-> cfg.model,
                  messages |-> <<[role |-> "user", content |-> request.query]>>,
                  max_tokens |-> cfg.maxTokens,
                  temperature |-> cfg.temperature]
  IN IF Truthy(request.search_recency_filter)
     THEN payload @@ [search_recency_filter |-> request.search_recency_filter]
     ELSE payload

\* Lines 68-75: the POST handed to fetch; body is the payload, serialized.
FetchRequest(cfg, payload) ==
  [url |-> "https://api.perplexity.ai/chat/completions",
   method |-> "POST",
   headers |-> [Authorization |-> "Bearer " \o cfg.perplexityApiKey,
                ContentType |-> "application/json"],
   body |-> payload]

\* IssueFetch sending the request a second time.
IssueFetchTwice(c, cfg) ==
  [c EXCEPT !.sent = Append(Append(@, FetchRequest(cfg, c.payload)), FetchRequest(cfg, c.payload)),
            !.pc = "awaitFetch"]

\* The call to fetch: one request leaves, and the handler suspends.
IssueFetch(c, cfg) ==
  [c EXCEPT !.sent = Append(@, FetchRequest(cfg, c.payload)), !.pc = "awaitFetch"]

\* Lines 46-75: from the handler's entry to its first await.
HandlerStart(cfg, request) ==
  IssueFetch([IdleCall EXCEPT !.request = request, !.payload = BuildPayload(cfg, request)], cfg)

\* DefaultErrorMessage without the status interpolated.
DefaultErrorMessageNoStatus(status) == JStr("HTTP error!")

\* Line 78.
DefaultErrorMessage(status) == JStr("HTTP error! status: " \o IntToString(status))

\* ErrorMessage with the two fields tried in the other order.
ErrorMessageMessageFirst(response) ==
  LET data == response.body.data
      error == IF data.t = "object" THEN data.error ELSE Undefined
      message == IF data.t = "object" THEN data.message ELSE Undefined
  IN IF ~response.body.valid \/ data.t \in Nullish THEN JStr("HTTP error! status: " \o IntToString(response.status))
     ELSE IF Truthy(message) THEN message
     ELSE IF Truthy(error) THEN error
     ELSE JStr("HTTP error! status: " \o IntToString(response.status))

\* Lines 78-84: errorData.error || errorData.message || errorMessage, inside a
\* try whose catch swallows a failed parse and a property read on null alike.
ErrorMessage(response) ==
  LET data == response.body.data
      error == IF data.t = "object" THEN data.error ELSE Undefined
      message == IF data.t = "object" THEN data.message ELSE Undefined
  IN IF ~response.body.valid \/ data.t \in Nullish THEN DefaultErrorMessage(response.status)
     ELSE IF Truthy(error) THEN error
     ELSE IF Truthy(message) THEN message
     ELSE DefaultErrorMessage(response.status)

\* Lines 86-92.
ApiErrorResult(response) == ErrorResult(ErrorPrefix \o JsToString(ErrorMessage(response)))

\* choices[0]: an array element, a character of a string, or undefined.
Index0(choices) ==
  CASE choices.t = "array" -> IF choices.elems = <<>> THEN UndefinedChoice ELSE choices.elems[1]
    [] choices.t = "string" ->
         IF choices.s = "" THEN UndefinedChoice ELSE ChoiceValue("string", UndefinedMessage)
    [] OTHER -> UndefinedChoice

Normal(value) == [threw |-> FALSE, error |-> NoFailure, value |-> value]

Abrupt(error) == [threw |-> TRUE, error |-> error, value |-> NoFormatted]

\* FormattedResponse without the `|| []` default.
FormattedResponseNoDefault(responseData) ==
  LET choices == IF responseData.t = "object" THEN responseData.choices ELSE UndefinedChoices
      choice == Index0(choices)
      message == IF choice.t = "object" THEN choice.message ELSE UndefinedMessage
      content == IF message.t = "object" THEN message.content ELSE Undefined
      citations == IF responseData.t = "object" THEN responseData.citations ELSE Undefined
  IN CASE responseData.t \in Nullish -> Abrupt(PropertyTypeError(responseData.t, "choices"))
       [] choices.t \in Nullish -> Abrupt(PropertyTypeError(choices.t, "0"))
       [] choice.t \in Nullish -> Abrupt(PropertyTypeError(choice.t, "message"))
       [] message.t \in Nullish -> Abrupt(PropertyTypeError(message.t, "content"))
       [] OTHER -> Normal([content |-> content, citations |-> citations])

\* Lines 98-101: responseData.choices[0].message.content, each property read
\* throwing on null or undefined, then citations || [].
FormattedResponse(responseData) ==
  LET choices == IF responseData.t = "object" THEN responseData.choices ELSE UndefinedChoices
      choice == Index0(choices)
      message == IF choice.t = "object" THEN choice.message ELSE UndefinedMessage
      content == IF message.t = "object" THEN message.content ELSE Undefined
      citations == IF responseData.t = "object" THEN responseData.citations ELSE Undefined
  IN CASE responseData.t \in Nullish -> Abrupt(PropertyTypeError(responseData.t, "choices"))
       [] choices.t \in Nullish -> Abrupt(PropertyTypeError(choices.t, "0"))
       [] choice.t \in Nullish -> Abrupt(PropertyTypeError(choice.t, "message"))
       [] message.t \in Nullish -> Abrupt(PropertyTypeError(message.t, "content"))
       [] OTHER -> Normal([content |-> content,
                           citations |-> IF Truthy(citations) THEN citations ELSE JArr(<<>>)])

\* CatchMessage ignoring the error's own message.
CatchMessageGeneric(error) == "Unknown error occurred"

\* CatchMessage numbering the failures with a count kept across invocations.
CatchMessageCounting(error) ==
  (IF error.isError THEN error.message ELSE "Unknown error occurred")
    \o " #" \o IntToString(Cardinality({j \in DOMAIN calls : calls[j].pc = "done"}))

\* Line 110.
CatchMessage(error) == IF error.isError THEN error.message ELSE "Unknown error occurred"

\* OuterCatch rethrowing instead of returning.
OuterCatchRethrow(error) == Thrown(error)

\* Lines 109-119: the catch block turns whatever was thrown into an error result.
OuterCatch(error) == Returned(ErrorResult(ErrorPrefix \o CatchMessage(error)))

\* ResponseOf with the response kept in one variable shared by all invocations:
\* a resumed handler reads the response of whichever invocation is awaiting a body.
ResponseOfShared(i) ==
  LET j == CHOOSE k \in DOMAIN calls : calls[k].pc \in {"awaitJson", "awaitErrorJson"}
  IN calls[j].response

\* `const response`: each invocation reads the response its own fetch resolved with.
ResponseOf(i) == calls[i].response

(***************************************************************************)
(* Inputs.                                                                 *)
(***************************************************************************)
RawConfigs ==
  {[perplexityApiKey |-> "pplx-key"],
   [perplexityApiKey |-> "other-key", model |-> "sonar", maxTokens |-> 1024, temperature |-> 7]}

Queries == {"What is the capital of France?", ""}

RecencyFilters == {JStr("month"), JStr("week"), JStr("day"), JStr("hour")}

Requests == {Request(q, f) : q \in Queries, f \in {Undefined} \cup RecencyFilters}

\* fetch rejects with a TypeError or an AbortError; the last is a thrown non-Error.
Failures ==
  {Failure(TRUE, "TypeError", "fetch failed"),
   Failure(TRUE, "AbortError", "This operation was aborted"),
   Failure(TRUE, "Error", ""),
   Failure(FALSE, "", "")}

Statuses == {200, 299, 300, 401, 404, 500}

Urls == {"https://example.com", "https://b.org/?q=\"x\""}

RECURSIVE SeqsUpTo(_, _)
SeqsUpTo(S, n) ==
  IF n = 0 THEN {<<>>}
  ELSE LET shorter == SeqsUpTo(S, n - 1)
       IN shorter \cup {Append(a, x) : a \in shorter, x \in S}

Scalars == {Null, JStr(""), JNum(0), JBool(FALSE), JBool(TRUE), JObj}

ErrorValues ==
  {Undefined, JStr("Invalid API key"), JNum(429), JArr(<<>>), JArr(<<"a", "b">>)} \cup Scalars

MessageValues == {Undefined, Null, JStr(""), JStr("Rate limit exceeded")}

ContentValues == {Undefined, JStr("Paris"), JStr("He said \"hi\"\nbye\\"), JNum(42)} \cup Scalars

CitationValues == {Undefined, JStr("x"), JNum(7)} \cup Scalars \cup {JArr(a) : a \in SeqsUpTo(Urls, MaxCitations)}

MessageObjects ==
  {MessageValue(t, Undefined) : t \in {"undefined", "null", "string", "array"}}
    \cup {MessageValue("object", c) : c \in ContentValues}

ChoiceObjects ==
  {ChoiceValue(t, UndefinedMessage) : t \in {"null", "string", "number"}}
    \cup {ChoiceValue("object", m) : m \in MessageObjects}

ChoicesValues ==
  {ChoicesValue(t, "", <<>>) : t \in {"undefined", "null", "number", "object", "string", "array"}}
    \cup {ChoicesValue("string", "abc", <<>>)}
    \cup {ChoicesValue("array", "", <<c>>) : c \in ChoiceObjects}
    \cup {ChoicesValue("array", "", <<c, ChoiceValue("null", UndefinedMessage)>>) : c \in ChoiceObjects}

InvalidBodies ==
  {Body(FALSE, "Unexpected end of JSON input", NullData),
   Body(FALSE, "Unexpected token '<', \"<html>\" is not valid JSON", NullData)}

PrimitiveBodies ==
  {Body(TRUE, "", JsonData(t, Undefined, Undefined, UndefinedChoices, Undefined)) :
     t \in {"null", "string", "number", "boolean", "array"}}

ErrorBodies ==
  {Body(TRUE, "", JsonData("object", e, m, UndefinedChoices, Undefined)) :
     e \in ErrorValues, m \in MessageValues}

\* Every shape of choices with citations absent or present, and every value of
\* citations under a well-formed choices.
GoodChoices ==
  {ChoicesValue("array", "", <<ChoiceValue("object", MessageValue("object", c))>>) :
     c \in {JStr("Paris"), Undefined}}

CompletionBodies ==
  {Body(TRUE, "", JsonData("object", Undefined, Undefined, ch, ci)) :
     ch \in ChoicesValues, ci \in {Undefined, JArr(<<"https://example.com">>)}}
    \cup {Body(TRUE, "", JsonData("object", Undefined, Undefined, ch, ci)) :
            ch \in GoodChoices, ci \in CitationValues}

MixedBodies ==
  {Body(TRUE, "", JsonData("object", JStr("Invalid API key"), JStr("Rate limit exceeded"),
                           ChoicesValue("array", "", <<ChoiceValue("object", MessageValue("object", JStr("Paris")))>>),
                           JArr(<<"https://example.com">>)))}

Bodies == InvalidBodies \cup PrimitiveBodies \cup ErrorBodies \cup CompletionBodies \cup MixedBodies

(***************************************************************************)
(* Actions: one per stretch of the handler between two awaits.            *)
(***************************************************************************)
\* The framework calls the handler with a validated request.
Invoke(i, request) ==
  /\ calls[i].pc = "idle"
  /\ calls' = [calls EXCEPT ![i] = HandlerStart(parsedConfig, request)]
  /\ UNCHANGED parsedConfig

\* fetch rejects: control enters the catch block.
FetchRejects(i, error) ==
  /\ calls[i].pc = "awaitFetch"
  /\ calls' = [calls EXCEPT ![i] = [@ EXCEPT !.fetched = "rejected", !.caught = TRUE, !.failure = error,
                                             !.completion = OuterCatch(error), !.pc = "done"]]
  /\ UNCHANGED parsedConfig

\* fetch resolves: the handler branches on response.ok and awaits response.json().
FetchResolves(i, status, body) ==
  /\ calls[i].pc = "awaitFetch"
  /\ LET response == Response(status, body)
     IN calls' = [calls EXCEPT ![i] = [@ EXCEPT !.fetched = "resolved", !.response = response,
                                                !.bodyReads = @ + 1,
                                                !.pc = IF response.ok THEN "awaitJson" ELSE "awaitErrorJson"]]
  /\ UNCHANGED parsedConfig

\* Lines 80-92: the error body settles, parsed or not.
ErrorJsonSettles(i) ==
  /\ calls[i].pc = "awaitErrorJson"
  /\ calls' = [calls EXCEPT ![i] = [@ EXCEPT !.completion = Returned(ApiErrorResult(ResponseOf(i))),
                                             !.pc = "done"]]
  /\ UNCHANGED parsedConfig

\* Lines 95-108, and the catch block when the parse or a property read throws.
JsonSettles(i) ==
  /\ calls[i].pc = "awaitJson"
  /\ LET body == ResponseOf(i).body
         formatted == FormattedResponse(body.data)
         error == IF body.valid THEN formatted.error ELSE Failure(TRUE, "SyntaxError", body.syntaxError)
     IN calls' = [calls EXCEPT ![i] =
          IF body.valid /\ ~formatted.threw
          THEN [@ EXCEPT !.formatted = formatted.value,
                         !.completion = Returned(SuccessResult(JSONStringify(formatted.value))),
                         !.pc = "done"]
          ELSE [@ EXCEPT !.caught = TRUE, !.failure = error, !.completion = OuterCatch(error), !.pc = "done"]]
  /\ UNCHANGED parsedConfig

\* The handler's promise has settled and its locals are gone.
Finish(i) ==
  /\ calls[i].pc = "done"
  /\ calls' = [calls EXCEPT ![i] = IdleCall]
  /\ UNCHANGED parsedConfig

\* Line 25, and no invocation yet.
Init ==
  /\ parsedConfig \in {ConfigParse(c) : c \in RawConfigs}
  /\ calls = [i \in 1..1 |-> IdleCall]

Next ==
  \/ \E i \in DOMAIN calls, request \in Requests : Invoke(i, request)
  \/ \E i \in DOMAIN calls, error \in Failures : FetchRejects(i, error)
  \/ \E i \in DOMAIN calls, status \in Statuses, body \in Bodies : FetchResolves(i, status, body)
  \/ \E i \in DOMAIN calls : ErrorJsonSettles(i)
  \/ \E i \in DOMAIN calls : JsonSettles(i)
  \/ \E i \in DOMAIN calls : Finish(i)

Spec == Init /\ [][Next]_vars

(***************************************************************************)
(* Concurrent invocations: NumCalls handlers in flight at once, resumed   *)
(* in any order, over a small set of requests and outcomes.               *)
(***************************************************************************)
ConcRequests ==
  {Request("What is the capital of France?", Undefined), Request("", JStr("week"))}

ConcFailures == {Failure(TRUE, "TypeError", "fetch failed"), Failure(FALSE, "", "")}

ConcStatuses == {200, 401}

ConcBodies ==
  {Body(FALSE, "Unexpected end of JSON input", NullData),
   Body(TRUE, "", JsonData("object", JStr("Invalid API key"), Undefined, UndefinedChoices, Undefined)),
   Body(TRUE, "", JsonData("object", Undefined, Undefined,
                           ChoicesValue("array", "", <<ChoiceValue("object", MessageValue("object", JStr("Paris")))>>),
                           JArr(<<"https://example.com">>)))}

InitConc ==
  /\ parsedConfig \in {ConfigParse(c) : c \in RawConfigs}
  /\ calls = [i \in 1..NumCalls |-> IdleCall]

NextConc ==
  \/ \E i \in DOMAIN calls, request \in ConcRequests : Invoke(i, request)
  \/ \E i \in DOMAIN calls, error \in ConcFailures : FetchRejects(i, error)
  \/ \E i \in DOMAIN calls, status \in ConcStatuses, body \in ConcBodies : FetchResolves(i, status, body)
  \/ \E i \in DOMAIN calls : ErrorJsonSettles(i)
  \/ \E i \in DOMAIN calls : JsonSettles(i)
  \/ \E i \in DOMAIN calls : Finish(i)

SpecConc == InitConc /\ [][NextConc]_vars

(***************************************************************************)
(* Properties of the handler.                                              *)
(***************************************************************************)
Done(i) == calls[i].pc = "done"

Value(i) == calls[i].completion.value

Text(i) == Value(i).content[1].text

IsErrorResult(v) == DOMAIN v = {"content", "isError"} /\ v.isError = TRUE

IsSuccessResult(v) == DOMAIN v = {"content"}

IsTextContent(c) == Len(c) = 1 /\ c[1].type = "text"

Contains(s, sub) == \E k \in 1..(Len(s) - Len(sub) + 1) : SubSeq(s, k, k + Len(sub) - 1) = sub

Resolved(i) == Done(i) /\ calls[i].fetched = "resolved"

Data(i) == calls[i].response.body.data

ValidJson(i) == calls[i].response.body.valid

\* choices[0].message of the body is there: neither absent nor null.
HasMessage(data) ==
  /\ data.t = "object"
  /\ data.choices.t = "array"
  /\ data.choices.elems # <<>>
  /\ data.choices.elems[1].t = "object"
  /\ data.choices.elems[1].message.t \notin Nullish

\* choices[0].message.content of the body, undefined where there is none.
BodyContent(data) ==
  IF HasMessage(data) /\ data.choices.elems[1].message.t = "object"
  THEN data.choices.elems[1].message.content
  ELSE Undefined

Falsy(v) == v \in {Undefined, Null, JStr(""), JNum(0), JBool(FALSE)}

\* C1: an invocation that has finished has returned a tool result, a success
\* result or an error result with isError = true, whatever the outcome of the
\* HTTP call; its promise is never rejected, and an invocation that has not
\* finished has settled nothing.
C1_AlwaysReturnsResult ==
  \A i \in DOMAIN calls :
    /\ calls[i].pc \in {"idle", "awaitFetch", "awaitErrorJson", "awaitJson", "done"}
    /\ ~Done(i) => calls[i].completion = Pending
    /\ Done(i) =>
         /\ calls[i].completion.kind = "return"
         /\ IsSuccessResult(Value(i)) \/ IsErrorResult(Value(i))
         /\ IsTextContent(Value(i).content)

\* A 2xx response whose body did not parse, turned into an error result.
C1_Witness ==
  \E i \in DOMAIN calls :
    /\ Resolved(i) /\ calls[i].response.ok /\ ~ValidJson(i)
    /\ calls[i].completion.kind = "return" /\ IsErrorResult(Value(i))

\* C2 as stated: every 2xx response yields a success result carrying the
\* body's choices[0].message.content and its citations, or [] when absent.
C2_Original ==
  \A i \in DOMAIN calls :
    Resolved(i) /\ calls[i].response.ok =>
      /\ IsSuccessResult(Value(i))
      /\ calls[i].formatted.content = BodyContent(Data(i))
      /\ calls[i].formatted.citations =
           IF Data(i).citations = Undefined THEN JArr(<<>>) ELSE Data(i).citations

\* C2, amended: a 2xx response whose body is valid JSON with choices[0].message
\* neither absent nor null yields a success result (no isError) whose content is
\* choices[0].message.content and whose citations is the citations field, or []
\* when that field is absent or falsy (null, false, 0, ""); the result's text is
\* the two-space-indented JSON of that object.
C2_SuccessCarriesContentAndCitations ==
  \A i \in DOMAIN calls :
    Resolved(i) /\ calls[i].response.ok /\ ValidJson(i) /\ HasMessage(Data(i)) =>
      /\ IsSuccessResult(Value(i))
      /\ calls[i].formatted.content = BodyContent(Data(i))
      /\ calls[i].formatted.citations =
           IF Falsy(Data(i).citations) THEN JArr(<<>>) ELSE Data(i).citations
      /\ Text(i) = JSONStringify(calls[i].formatted)
      /\ (BodyContent(Data(i)) = JStr("Paris") /\ Data(i).citations = JArr(<<"https://example.com">>)
            => Text(i) = "{\n  \"content\": \"Paris\",\n  \"citations\": [\n    \"https://example.com\"\n  ]\n}")
      /\ (BodyContent(Data(i)) = Undefined /\ Data(i).citations = Undefined
            => Text(i) = "{\n  \"citations\": []\n}")

\* 200 with content "Paris" and no citations field: citations defaults to [].
C2_Witness ==
  \E i \in DOMAIN calls :
    /\ Resolved(i) /\ calls[i].response.status = 200 /\ ValidJson(i)
    /\ BodyContent(Data(i)) = JStr("Paris") /\ Data(i).citations = Undefined
    /\ IsSuccessResult(Value(i))
    /\ Text(i) = "{\n  \"content\": \"Paris\",\n  \"citations\": []\n}"

\* C3 as stated: a non-2xx JSON body with an `error` field gives an error
\* result whose message is that field's value, whatever the value.
C3_Original ==
  \A i \in DOMAIN calls :
    Resolved(i) /\ ~calls[i].response.ok /\ ValidJson(i)
      /\ Data(i).t = "object" /\ Data(i).error # Undefined =>
        /\ IsErrorResult(Value(i))
        /\ Text(i) = "Perplexity API error: " \o JsToString(Data(i).error)

\* C3, amended: a non-2xx JSON body whose `error` field is a non-empty string
\* gives an error result whose text is "Perplexity API error: " followed by that
\* string, also when a `message` field is present.
C3_ErrorFieldIsTheMessage ==
  \A i \in DOMAIN calls :
    Resolved(i) /\ ~calls[i].response.ok /\ ValidJson(i)
      /\ Data(i).t = "object" /\ Data(i).error.t = "string" /\ Data(i).error.s # "" =>
        /\ IsErrorResult(Value(i))
        /\ Text(i) = "Perplexity API error: " \o Data(i).error.s

\* 401 with {"error": "Invalid API key", "message": "Rate limit exceeded"}.
C3_Witness ==
  \E i \in DOMAIN calls :
    /\ Resolved(i) /\ calls[i].response.status = 401 /\ ValidJson(i)
    /\ Data(i).error = JStr("Invalid API key") /\ Data(i).message = JStr("Rate limit exceeded")
    /\ Text(i) = "Perplexity API error: Invalid API key"

StatusDigits(status) ==
  CASE status = 300 -> "300" [] status = 401 -> "401" [] status = 404 -> "404"
    [] status = 500 -> "500" [] OTHER -> "no such status"

\* C4: a non-2xx response whose body does not parse, or parses to JSON with
\* neither an `error` nor a `message` field, gives an error result whose
\* message contains the response's status code.
C4_FallbackNamesStatus ==
  \A i \in DOMAIN calls :
    Resolved(i) /\ ~calls[i].response.ok
      /\ (~ValidJson(i) \/ Data(i).t # "object"
            \/ (Data(i).error = Undefined /\ Data(i).message = Undefined)) =>
        /\ IsErrorResult(Value(i))
        /\ Contains(Text(i), StatusDigits(calls[i].response.status))

\* 500 with a body that is not JSON.
C4_Witness ==
  \E i \in DOMAIN calls :
    /\ Resolved(i) /\ calls[i].response.status = 500 /\ ~ValidJson(i)
    /\ Text(i) = "Perplexity API error: HTTP error! status: 500"

\* C5: the payload has the key search_recency_filter exactly when the request
\* supplied one of month, week, day, hour, with the supplied value; model, the
\* one user message with the query, max_tokens and temperature are there either
\* way, and the payload is the body of the request sent.
C5_RecencyFilterIffSupplied ==
  \A i \in DOMAIN calls :
    calls[i].pc # "idle" =>
      LET payload == calls[i].payload
          filter == calls[i].request.search_recency_filter
      IN /\ ("search_recency_filter" \in DOMAIN payload
               <=> filter \in {JStr("month"), JStr("week"), JStr("day"), JStr("hour")})
         /\ "search_recency_filter" \in DOMAIN payload => payload.search_recency_filter = filter
         /\ DOMAIN payload \ {"search_recency_filter"} = {"model", "messages", "max_tokens", "temperature"}
         /\ payload.model = parsedConfig.model
         /\ payload.messages = <<[role |-> "user", content |-> calls[i].request.query]>>
         /\ payload.max_tokens = parsedConfig.maxTokens
         /\ payload.temperature = parsedConfig.temperature
         /\ calls[i].sent # <<>> /\ calls[i].sent[1].body = payload

\* A request with filter "week" in flight, and one without a filter.
C5_Witness ==
  \E i \in DOMAIN calls :
    /\ calls[i].pc = "awaitFetch"
    /\ calls[i].request.search_recency_filter = JStr("week")
    /\ calls[i].payload.search_recency_filter = JStr("week")

\* C6: an invocation issues exactly one HTTP request: one has left as soon as
\* the handler is suspended, none is added after a failure, a non-2xx status or
\* a malformed body, and the handler finishes only after that request settled.
C6_ExactlyOneRequest ==
  \A i \in DOMAIN calls :
    /\ calls[i].pc = "idle" => calls[i].sent = <<>>
    /\ calls[i].pc # "idle" => Len(calls[i].sent) = 1
    /\ calls[i].pc = "awaitFetch" <=> (calls[i].pc # "idle" /\ calls[i].fetched = "none")
    /\ Done(i) => calls[i].fetched \in {"rejected", "resolved"}

\* Finished after a transport failure, with one request sent.
C6_Witness ==
  \E i \in DOMAIN calls :
    Done(i) /\ calls[i].fetched = "rejected" /\ Len(calls[i].sent) = 1

\* The body lacks an expected field: no choices, empty choices, choices[0]
\* without message, or message without content.
MissingField(data) ==
  \/ data.choices.t = "undefined"
  \/ data.choices.t = "array" /\ data.choices.elems = <<>>
  \/ /\ data.choices.t = "array" /\ data.choices.elems # <<>>
     /\ data.choices.elems[1].t = "object"
     /\ \/ data.choices.elems[1].message.t = "undefined"
        \/ /\ data.choices.elems[1].message.t = "object"
           /\ data.choices.elems[1].message.content.t = "undefined"

\* C7: a 2xx response whose JSON body lacks an expected field gives an error
\* result, never a success result.
C7_MalformedBodyIsError ==
  \A i \in DOMAIN calls :
    Resolved(i) /\ calls[i].response.ok /\ ValidJson(i)
      /\ Data(i).t = "object" /\ MissingField(Data(i)) =>
        IsErrorResult(Value(i))

\* C8: when fetch rejects, or the parse or a property read of the success path
\* throws, the result is an error result whose message is the thrown Error's
\* own message, or "Unknown error occurred" when what was thrown is no Error;
\* after a rejected fetch no body was read, and no formatted response exists.
C8_CatchReportsFailure ==
  \A i \in DOMAIN calls :
    /\ calls[i].caught =>
         /\ Done(i) /\ IsErrorResult(Value(i))
         /\ Text(i) = "Perplexity API error: "
              \o (IF calls[i].failure.isError THEN calls[i].failure.message ELSE "Unknown error occurred")
         /\ calls[i].formatted = NoFormatted
    /\ Done(i) /\ calls[i].fetched = "rejected" => calls[i].caught /\ calls[i].bodyReads = 0
    /\ Resolved(i) /\ calls[i].response.ok /\ ~ValidJson(i) =>
         /\ calls[i].caught
         /\ calls[i].failure.message = calls[i].response.body.syntaxError

\* fetch rejected with TypeError("fetch failed").
C8_Witness ==
  \E i \in DOMAIN calls :
    /\ Done(i) /\ calls[i].fetched = "rejected"
    /\ calls[i].failure = Failure(TRUE, "TypeError", "fetch failed")
    /\ Text(i) = "Perplexity API error: fetch failed"

\* C8, the other branch: what was thrown is not an Error.
C8_WitnessUnknown ==
  \E i \in DOMAIN calls :
    Done(i) /\ ~calls[i].failure.isError /\ Text(i) = "Perplexity API error: Unknown error occurred"

\* C9: two invocations with the same request and the same outcome (the same
\* transport failure, or the same status and body) have the same result,
\* whatever other invocations have run and finished before or beside them.
C9_SameInputSameResult ==
  \A i, j \in DOMAIN calls :
    /\ Done(i) /\ Done(j)
    /\ calls[i].request = calls[j].request
    /\ calls[i].fetched = calls[j].fetched
    /\ calls[i].fetched = "rejected" => calls[i].failure = calls[j].failure
    /\ calls[i].fetched = "resolved" => calls[i].response = calls[j].response
    => calls[i].completion = calls[j].completion

\* Two finished invocations of one request with one outcome.
C9_Witness ==
  \E i, j \in DOMAIN calls :
    /\ i # j /\ Done(i) /\ Done(j)
    /\ calls[i].request = calls[j].request
    /\ calls[i].fetched = "rejected" /\ calls[j].fetched = "rejected"
    /\ calls[i].failure = calls[j].failure
    /\ calls[i].completion = calls[j].completion

\* What an invocation's own outcome determines.
OwnCompletion(c) ==
  IF c.fetched = "rejected" THEN OuterCatch(c.failure)
  ELSE IF ~c.response.ok THEN Returned(ApiErrorResult(c.response))
  ELSE IF ~c.response.body.valid
    THEN OuterCatch(Failure(TRUE, "SyntaxError", c.response.body.syntaxError))
  ELSE IF FormattedResponse(c.response.body.data).threw
    THEN OuterCatch(FormattedResponse(c.response.body.data).error)
  ELSE Returned(SuccessResult(JSONStringify(FormattedResponse(c.response.body.data).value)))

OwnState ==
  \A i \in DOMAIN calls :
    /\ calls[i].pc # "idle" =>
         /\ calls[i].payload = BuildPayload(parsedConfig, calls[i].request)
         /\ calls[i].payload.messages[1].content = calls[i].request.query
         /\ calls[i].sent = <<FetchRequest(parsedConfig, calls[i].payload)>>
    /\ Done(i) => calls[i].completion = OwnCompletion(calls[i])

\* C10: with several invocations suspended at once and resumed in any order,
\* each one's payload and result are those of its own request, its own HTTP
\* outcome and the configuration; a step changes the locals of one invocation
\* only, and the configuration never changes.
C10_InvocationsIsolated ==
  /\ []OwnState
  /\ [][\A i, j \in DOMAIN calls : i # j => calls'[i] = calls[i] \/ calls'[j] = calls[j]]_vars
  /\ [][parsedConfig' = parsedConfig]_vars

\* Two invocations of different requests, one finished on a 200 while the other,
\* whose response is a 401, still awaits its body.
C10_Witness ==
  \E i, j \in DOMAIN calls :
    /\ calls[i].request # calls[j].request
    /\ Done(i) /\ calls[i].response.status = 200 /\ IsSuccessResult(Value(i))
    /\ calls[j].pc = "awaitErrorJson" /\ calls[j].response.status = 401

====
